---- MODULE Spec2Model ----
(***************************************************************************)
(* A model of pykinect_module.py: the KinectAzureModule wrapper class      *)
(* (configuration lookup with fall-back, device start / close, calibration *)
(* retrieval, one capture per call) and the __main__ display loop.         *)
(*                                                                         *)
(* The vendor SDK (pykinect_azure) and OpenCV are not part of the          *)
(* repository.  They are modelled as a small hardware layer whose          *)
(* behaviour follows the specification's description of the collaborator:  *)
(* a device is an exclusive resource, an update yields a colour and a      *)
(* depth image each with its own success flag, and every use of a handle   *)
(* that is not open is undefined (any outcome).                            *)
(***************************************************************************)
EXTENDS Integers, Sequences, FiniteSets, TLC

VARIABLES
    sessions,               \* the KinectAzureModule objects constructed so far
    device_index,           \* self.device_index
    resolution,             \* self.resolution   (an SDK enum, or NoAttr)
    depth_mode,             \* self.depth_mode   (an SDK enum, or NoAttr)
    device_config,          \* self.device_config (a reference, or NoAttr)
    device,                 \* self.device       (a handle, or NoDevice)
    default_configuration,  \* the module-level object pykinect.default_configuration
    libraries_initialized,  \* set by pykinect.initialize_libraries()
    devices,                \* hardware layer: every Device object created so far
    last,                   \* the last call made: who, what, arguments, outcome
    main,                   \* the __main__ block: position and local variables
    quit                    \* the user is signalling the quit key

session_vars == <<sessions, device_index, resolution, depth_mode, device_config,
                  device, default_configuration, libraries_initialized, devices, last>>
vars == <<sessions, device_index, resolution, depth_mode, device_config,
          device, default_configuration, libraries_initialized, devices, last,
          main, quit>>

----------------------------------------------------------------------------
(* Bounds of the model *)

MaxSessions == 2
MaxDeviceIndex == 1
MaxHandles == 2
MaxFrames == 2

SessionIds == 1..MaxSessions
DeviceIndexes == 0..MaxDeviceIndex
HandleIds == 1..MaxHandles
Frames == 1..MaxFrames

----------------------------------------------------------------------------
(* Values *)

NoAttr == "<no attribute>"
NoDevice == 0
DefaultConfigurationRef == "pykinect.default_configuration"

resolution_map ==
    [l \in {"720P", "1080P", "1440P", "1536P", "2160P", "3072P"} |->
        CASE l = "720P"  -> "K4A_COLOR_RESOLUTION_720P"
          [] l = "1080P" -> "K4A_COLOR_RESOLUTION_1080P"
          [] l = "1440P" -> "K4A_COLOR_RESOLUTION_1440P"
          [] l = "1536P" -> "K4A_COLOR_RESOLUTION_1536P"
          [] l = "2160P" -> "K4A_COLOR_RESOLUTION_2160P"
          [] l = "3072P" -> "K4A_COLOR_RESOLUTION_3072P"]

depth_mode_map ==
    [l \in {"NFOV_2X2BINNED", "NFOV_UNBINNED", "WFOV_2X2BINNED",
            "WFOV_UNBINNED", "PASSIVE_IR"} |->
        CASE l = "NFOV_2X2BINNED" -> "K4A_DEPTH_MODE_NFOV_2X2BINNED"
          [] l = "NFOV_UNBINNED"  -> "K4A_DEPTH_MODE_NFOV_UNBINNED"
          [] l = "WFOV_2X2BINNED" -> "K4A_DEPTH_MODE_WFOV_2X2BINNED"
          [] l = "WFOV_UNBINNED"  -> "K4A_DEPTH_MODE_WFOV_UNBINNED"
          [] l = "PASSIVE_IR"     -> "K4A_DEPTH_MODE_PASSIVE_IR"]

\* Labels no table holds: wrong case, a name of no mode, the empty string.
UnknownLabels == {"1080p", "4K", ""}

\* The strings a caller may pass to either setter: a label of the other table
\* is an unknown label too.
Labels == DOMAIN resolution_map \cup DOMAIN depth_mode_map \cup UnknownLabels

\* The labels a caller passes where the device life cycle is explored: two
\* supported labels of each table and one unknown label.
LifeCycleResolutions == {"720P", "2160P", "4K"}
LifeCycleDepthModes == {"WFOV_UNBINNED", "PASSIVE_IR", "4K"}

\* The labels passed where two sessions run side by side.
TwoSessionResolutions == {"720P", "4K"}
TwoSessionDepthModes == {"PASSIVE_IR", "4K"}

InvalidResolutionMessage == "Invalid resolution. Defaulting to 1080P."
InvalidDepthModeMessage == "Invalid depth mode. Defaulting to NFOV_2X2BINNED."

Return(v) == [kind |-> "return", value |-> v]
Raise(e) == [kind |-> "raise", value |-> <<e>>]
None == <<"None">>

Call(op, self, arg, ret, out, updates) ==
    [op |-> op, self |-> self, arg |-> arg, ret |-> ret, out |-> out,
     updates |-> updates]

----------------------------------------------------------------------------
(* The hardware layer *)

NoCapture == [valid |-> FALSE, color_ok |-> FALSE, depth_ok |-> FALSE, frame |-> 0]
NoConfiguration == [color_resolution |-> NoAttr, depth_mode |-> NoAttr]

Unopened == [state |-> "unopened", index |-> 0, config |-> NoConfiguration,
             capture |-> NoCapture]

IsOpen(h) == h \in HandleIds /\ devices[h].state = "open"

Claimed(idx) == \E h \in HandleIds : devices[h].state = "open" /\ devices[h].index = idx

FreeHandles == {h \in HandleIds : devices[h].state = "unopened"}

NewHandle == CHOOSE h \in FreeHandles : \A g \in FreeHandles : h <= g

\* pykinect.start_device(device_index, config): the outcomes the SDK can give.
\* A device that is open is claimed, so opening it again is refused; a device
\* that is free is opened, unless no hardware answers at that index.
pykinect_start_device(idx) ==
    {"DeviceUnavailable"} \cup (IF Claimed(idx) THEN {} ELSE {"opened"})

\* Device.update(): one capture, colour and depth each with its own flag; the
\* frame number stands for the pixels of the frame.
Captures == {[valid |-> TRUE, color_ok |-> c, depth_ok |-> d, frame |-> f] :
                c, d \in BOOLEAN, f \in Frames}

\* capture.get_color_image() and capture.get_transformed_depth_image()
get_color_image(cap) ==
    <<cap.color_ok, IF cap.color_ok THEN <<"color_image", cap.frame>> ELSE None>>

get_transformed_depth_image(cap) ==
    <<cap.depth_ok,
      IF cap.depth_ok THEN <<"transformed_depth_image", cap.frame>> ELSE None>>

\* device.calibration.get_matrix(camera) and .get_distortion()
get_matrix(h, camera) == <<"matrix", camera, devices[h].index>>

get_distortion(h) == <<"distortion", devices[h].index>>

----------------------------------------------------------------------------
(* KinectAzureModule *)

Started(i) == i \in sessions /\ IsOpen(device[i])

\* The configuration record self.device_config refers to.
ConfigurationRecord(i) ==
    IF device_config[i] = DefaultConfigurationRef
    THEN default_configuration ELSE NoConfiguration

\* A set_resolution whose fall-back is the first entry of the table.
set_resolution_first_entry(label) ==
    IF label \in DOMAIN resolution_map
    THEN resolution_map[label]
    ELSE resolution_map["720P"]

\* set_resolution: the value assigned to self.resolution, and what is printed.
set_resolution_value(label) ==
    IF label \in DOMAIN resolution_map
    THEN resolution_map[label]
    ELSE resolution_map["1080P"]

set_resolution_print(label) ==
    IF label \in DOMAIN resolution_map THEN <<>> ELSE <<InvalidResolutionMessage>>

\* A set_depth_mode that looks the label up without the membership test's
\* case: an unknown label gets the last entry of the table.
set_depth_mode_last_entry(label) ==
    IF label \in DOMAIN depth_mode_map
    THEN depth_mode_map[label]
    ELSE depth_mode_map["PASSIVE_IR"]

\* set_depth_mode: the value assigned to self.depth_mode, and what is printed.
set_depth_mode_value(label) ==
    IF label \in DOMAIN depth_mode_map
    THEN depth_mode_map[label]
    ELSE depth_mode_map["NFOV_2X2BINNED"]

set_depth_mode_print(label) ==
    IF label \in DOMAIN depth_mode_map THEN <<>> ELSE <<InvalidDepthModeMessage>>

\* __init__(device_index, resolution, depth_mode)
KinectAzureModule_init(i, idx, res, dm) ==
    /\ i \notin sessions
    /\ sessions' = sessions \cup {i}
    /\ device_index' = [device_index EXCEPT ![i] = idx]
    /\ resolution' = [resolution EXCEPT ![i] = set_resolution_value(res)]
    /\ depth_mode' = [depth_mode EXCEPT ![i] = set_depth_mode_value(dm)]
    /\ libraries_initialized' = TRUE
    /\ last' = Call("__init__", i, <<res, dm>>, Return(None),
                    set_resolution_print(res) \o set_depth_mode_print(dm), 0)
    /\ UNCHANGED <<device_config, device, default_configuration, devices>>

\* A set_resolution that also writes the selection into the configuration
\* record the session holds.
set_resolution_live(i, label) ==
    /\ i \in sessions
    /\ resolution' = [resolution EXCEPT ![i] = set_resolution_value(label)]
    /\ default_configuration' =
          IF device_config[i] = DefaultConfigurationRef
          THEN [default_configuration EXCEPT
                  !.color_resolution = set_resolution_value(label)]
          ELSE default_configuration
    /\ last' = Call("set_resolution", i, <<label>>, Return(None),
                    set_resolution_print(label), 0)
    /\ UNCHANGED <<sessions, device_index, depth_mode, device_config, device,
                   libraries_initialized, devices>>

set_resolution(i, label) ==
    /\ i \in sessions
    /\ resolution' = [resolution EXCEPT ![i] = set_resolution_value(label)]
    /\ last' = Call("set_resolution", i, <<label>>, Return(None),
                    set_resolution_print(label), 0)
    /\ UNCHANGED <<sessions, device_index, depth_mode, device_config, device,
                   default_configuration, libraries_initialized, devices>>

set_depth_mode(i, label) ==
    /\ i \in sessions
    /\ depth_mode' = [depth_mode EXCEPT ![i] = set_depth_mode_value(label)]
    /\ last' = Call("set_depth_mode", i, <<label>>, Return(None),
                    set_depth_mode_print(label), 0)
    /\ UNCHANGED <<sessions, device_index, resolution, device_config, device,
                   default_configuration, libraries_initialized, devices>>

\* start_device: the shared default configuration object is taken and
\* written, then the device is opened with it.  When the SDK refuses, the
\* exception leaves through start_device and self.device is not assigned.
start_device(i) ==
    /\ i \in sessions
    /\ device_config' = [device_config EXCEPT ![i] = DefaultConfigurationRef]
    /\ default_configuration' = [color_resolution |-> resolution[i],
                                 depth_mode |-> depth_mode[i]]
    /\ \E outcome \in pykinect_start_device(device_index[i]) :
          IF outcome = "opened"
          THEN /\ FreeHandles # {}
               /\ devices' = [devices EXCEPT ![NewHandle] =
                                [state |-> "open", index |-> device_index[i],
                                 config |-> default_configuration',
                                 capture |-> NoCapture]]
               /\ device' = [device EXCEPT ![i] = NewHandle]
               /\ last' = Call("start_device", i, <<>>, Return(None), <<>>, 0)
          ELSE /\ UNCHANGED <<devices, device>>
               /\ last' = Call("start_device", i, <<>>, Raise(outcome), <<>>, 0)
    /\ UNCHANGED <<sessions, device_index, resolution, depth_mode,
                   libraries_initialized>>

\* param: the colour camera's matrix (camera 1) and the distortion of
\* self.device.  Without self.device the attribute lookup raises; on a closed
\* device the SDK's answer is undefined.
param_value(h) == <<get_matrix(h, 1), get_distortion(h)>>

\* A param that answers None when the session has no device.
param_returns_none(i) ==
    IF device[i] = NoDevice THEN {Return(None)}
    ELSE IF IsOpen(device[i]) THEN {Return(param_value(device[i]))}
    ELSE {Return(param_value(device[i])), Raise("InvalidState")}

param_returns(i) ==
    IF device[i] = NoDevice THEN {Raise("AttributeError")}
    ELSE IF IsOpen(device[i]) THEN {Return(param_value(device[i]))}
    ELSE {Return(param_value(device[i])), Raise("InvalidState")}

param(i) ==
    /\ i \in sessions
    /\ \E ret \in param_returns(i) : last' = Call("param", i, <<>>, ret, <<>>, 0)
    /\ UNCHANGED <<sessions, device_index, resolution, depth_mode, device_config,
                   device, default_configuration, libraries_initialized, devices>>

\* capture_loop: one update of self.device, then the two images of the
\* capture, each with its own flag.
\* A capture_loop that reports the colour flag for the depth image too.
capture_loop_one_flag(cap) ==
    get_color_image(cap) \o <<cap.color_ok, get_transformed_depth_image(cap)[2]>>

capture_loop_value(cap) == get_color_image(cap) \o get_transformed_depth_image(cap)

capture_loop(i) ==
    /\ i \in sessions
    /\ IF device[i] = NoDevice
       THEN /\ last' = Call("capture_loop", i, <<>>, Raise("AttributeError"), <<>>, 0)
            /\ UNCHANGED devices
       ELSE IF IsOpen(device[i])
       THEN \E cap \in Captures :
               /\ devices' = [devices EXCEPT ![device[i]].capture = cap]
               /\ last' = Call("capture_loop", i, <<>>,
                               Return(capture_loop_value(cap)), <<>>, 1)
       ELSE \* update() on a closed device: undefined
            /\ \E ret \in {Raise("InvalidState")}
                           \cup {Return(capture_loop_value(cap)) : cap \in Captures} :
                  last' = Call("capture_loop", i, <<>>, ret, <<>>, 1)
            /\ UNCHANGED devices
    /\ UNCHANGED <<sessions, device_index, resolution, depth_mode, device_config,
                   device, default_configuration, libraries_initialized>>

\* A close_device that drops the session's reference and leaves the device open.
close_device_forget(i) ==
    /\ i \in sessions
    /\ device' = [device EXCEPT ![i] = NoDevice]
    /\ last' = Call("close_device", i, <<>>, Return(None), <<>>, 0)
    /\ UNCHANGED <<sessions, device_index, resolution, depth_mode, device_config,
                   default_configuration, libraries_initialized, devices>>

\* close_device: self.device.close().  Closing releases the device; closing a
\* closed device is undefined (it may be accepted or refused).
close_device(i) ==
    /\ i \in sessions
    /\ IF device[i] = NoDevice
       THEN /\ last' = Call("close_device", i, <<>>, Raise("AttributeError"), <<>>, 0)
            /\ UNCHANGED devices
       ELSE IF IsOpen(device[i])
       THEN /\ devices' = [devices EXCEPT ![device[i]] =
                             [state |-> "closed", index |-> @.index,
                              config |-> NoConfiguration, capture |-> NoCapture]]
            /\ last' = Call("close_device", i, <<>>, Return(None), <<>>, 0)
       ELSE /\ \E ret \in {Return(None), Raise("InvalidState")} :
                  last' = Call("close_device", i, <<>>, ret, <<>>, 0)
            /\ UNCHANGED devices
    /\ UNCHANGED <<sessions, device_index, resolution, depth_mode, device_config,
                   device, default_configuration, libraries_initialized>>

----------------------------------------------------------------------------
(* The module as loaded, before any object is constructed *)

MainIdle == [pc |-> "idle", ret_rgb |-> FALSE, ret_depth |-> FALSE,
             color_img |-> None, depth_img |-> None,
             color_window |-> None, depth_window |-> None,
             key |-> "none", error |-> "None"]

InitSessions ==
    /\ sessions = {}
    /\ device_index = [i \in SessionIds |-> 0]
    /\ resolution = [i \in SessionIds |-> NoAttr]
    /\ depth_mode = [i \in SessionIds |-> NoAttr]
    /\ device_config = [i \in SessionIds |-> NoAttr]
    /\ device = [i \in SessionIds |-> NoDevice]
    /\ default_configuration = [color_resolution |-> "K4A_COLOR_RESOLUTION_720P",
                                depth_mode |-> "K4A_DEPTH_MODE_WFOV_2X2BINNED"]
    /\ libraries_initialized = FALSE
    /\ devices = [h \in HandleIds |-> Unopened]
    /\ last = Call("import", 0, <<>>, Return(None), <<>>, 0)

Init == InitSessions /\ main = MainIdle /\ quit = FALSE

\* One caller driving one session through its whole life cycle.
Construct ==
    /\ \E idx \in DeviceIndexes, res \in LifeCycleResolutions,
          dm \in LifeCycleDepthModes : KinectAzureModule_init(1, idx, res, dm)
    /\ UNCHANGED <<main, quit>>

SetResolution ==
    /\ \E label \in LifeCycleResolutions : set_resolution(1, label)
    /\ UNCHANGED <<main, quit>>

SetDepthMode ==
    /\ \E label \in LifeCycleDepthModes : set_depth_mode(1, label)
    /\ UNCHANGED <<main, quit>>

StartDevice == start_device(1) /\ UNCHANGED <<main, quit>>

Param == param(1) /\ UNCHANGED <<main, quit>>

CaptureLoop == capture_loop(1) /\ UNCHANGED <<main, quit>>

CloseDevice == close_device(1) /\ UNCHANGED <<main, quit>>

Next ==
    \/ Construct
    \/ SetResolution
    \/ SetDepthMode
    \/ StartDevice
    \/ Param
    \/ CaptureLoop
    \/ CloseDevice

Spec == Init /\ [][Next]_vars

\* The configuration operations alone, over every label.
ConfigureConstruct ==
    /\ \E idx \in DeviceIndexes, res \in Labels, dm \in Labels :
          KinectAzureModule_init(1, idx, res, dm)
    /\ UNCHANGED <<main, quit>>

ConfigureResolution ==
    /\ \E label \in Labels : set_resolution(1, label)
    /\ UNCHANGED <<main, quit>>

ConfigureDepthMode ==
    /\ \E label \in Labels : set_depth_mode(1, label)
    /\ UNCHANGED <<main, quit>>

NextConfigure ==
    \/ ConfigureConstruct
    \/ ConfigureResolution
    \/ ConfigureDepthMode

SpecConfigure == Init /\ [][NextConfigure]_vars

\* Two sessions constructed, configured and started in any interleaving.
TwoConstruct ==
    /\ \E i \in SessionIds, idx \in DeviceIndexes,
          res \in TwoSessionResolutions, dm \in TwoSessionDepthModes :
          KinectAzureModule_init(i, idx, res, dm)
    /\ UNCHANGED <<main, quit>>

TwoSetResolution ==
    /\ \E i \in SessionIds, label \in TwoSessionResolutions : set_resolution(i, label)
    /\ UNCHANGED <<main, quit>>

TwoSetDepthMode ==
    /\ \E i \in SessionIds, label \in TwoSessionDepthModes : set_depth_mode(i, label)
    /\ UNCHANGED <<main, quit>>

TwoStartDevice ==
    /\ \E i \in SessionIds : start_device(i)
    /\ UNCHANGED <<main, quit>>

NextTwo ==
    \/ TwoConstruct
    \/ TwoSetResolution
    \/ TwoSetDepthMode
    \/ TwoStartDevice

SpecTwo == Init /\ [][NextTwo]_vars

----------------------------------------------------------------------------
(* The __main__ block.  Its session is session 1.  A cv2 call may raise
   cv2.error; nothing catches an exception, so a raise ends the program. *)

Exit(error) == [main EXCEPT !.pc = "exit", !.error = error]

InitMain == InitSessions /\ main = [MainIdle EXCEPT !.pc = "construct"] /\ quit = FALSE

\* kinect = KinectAzureModule(resolution="1080P", depth_mode="NFOV_2X2BINNED")
MainConstruct ==
    /\ main.pc = "construct"
    /\ KinectAzureModule_init(1, 0, "1080P", "NFOV_2X2BINNED")
    /\ main' = [main EXCEPT !.pc = "start_device"]
    /\ UNCHANGED quit

\* kinect.start_device()
MainStartDevice ==
    /\ main.pc = "start_device"
    /\ start_device(1)
    /\ main' = IF last'.ret.kind = "raise"
               THEN Exit(last'.ret.value[1])
               ELSE [main EXCEPT !.pc = "namedWindow"]
    /\ UNCHANGED quit

\* cv2.namedWindow('Color Image', ...); cv2.namedWindow('Depth Image', ...)
MainNamedWindow ==
    /\ main.pc = "namedWindow"
    /\ \E ok \in BOOLEAN :
          main' = IF ok THEN [main EXCEPT !.pc = "capture_loop"] ELSE Exit("cv2.error")
    /\ UNCHANGED <<session_vars, quit>>

\* A `continue` test that skips only when both flags are unset.
SkipFrameBothUnset(ret_rgb, ret_depth) == ~ret_rgb /\ ~ret_depth

\* The `continue` test of the loop: skip the frame unless both flags are set.
SkipFrame(ret_rgb, ret_depth) == ~ret_rgb \/ ~ret_depth

\* ret_rgb, color_img, ret_depth, depth_img = kinect.capture_loop()
\* if not ret_rgb or not ret_depth: continue
MainCaptureLoop ==
    /\ main.pc = "capture_loop"
    /\ capture_loop(1)
    /\ main' = IF last'.ret.kind = "raise"
               THEN Exit(last'.ret.value[1])
               ELSE LET v == last'.ret.value IN
                    [main EXCEPT !.ret_rgb = v[1], !.color_img = v[2],
                                 !.ret_depth = v[3], !.depth_img = v[4],
                                 !.pc = IF SkipFrame(v[1], v[3])
                                        THEN "capture_loop" ELSE "imshow"]
    /\ UNCHANGED quit

\* cv2.imshow('Color Image', color_img); if depth_img is not None: ...
MainImshow ==
    /\ main.pc = "imshow"
    /\ \E ok \in BOOLEAN :
          main' = IF ok
                  THEN [main EXCEPT !.color_window = main.color_img,
                                    !.pc = IF main.depth_img # None
                                           THEN "normalize" ELSE "waitKey"]
                  ELSE Exit("cv2.error")
    /\ UNCHANGED <<session_vars, quit>>

\* depth_vis = cv2.normalize(depth_img, ...).astype(np.uint8)
\* cv2.imshow('Depth Image', depth_vis)
MainNormalize ==
    /\ main.pc = "normalize"
    /\ \E ok \in BOOLEAN :
          main' = IF ok
                  THEN [main EXCEPT !.depth_window = <<"normalized">> \o main.depth_img,
                                    !.pc = "waitKey"]
                  ELSE Exit("cv2.error")
    /\ UNCHANGED <<session_vars, quit>>

\* The key cv2.waitKey(1) & 0xFF gives: 'q' when the quit key is pending.
waitKey == IF quit THEN {"q"} ELSE {"none", "other"}

\* The `break` test of the loop.
QuitKey(key) == key = "q"

\* if cv2.waitKey(1) & 0xFF == ord('q'): break
MainWaitKey ==
    /\ main.pc = "waitKey"
    /\ \E key \in waitKey :
          main' = [main EXCEPT !.key = key,
                               !.pc = IF QuitKey(key)
                                      THEN "destroyAllWindows" ELSE "capture_loop"]
    /\ UNCHANGED <<session_vars, quit>>

\* cv2.destroyAllWindows(); kinect.close_device()
MainClose ==
    /\ main.pc = "destroyAllWindows"
    /\ close_device(1)
    /\ main' = [main EXCEPT !.color_window = None, !.depth_window = None,
                            !.pc = "exit",
                            !.error = IF last'.ret.kind = "raise"
                                      THEN last'.ret.value[1] ELSE "None"]
    /\ UNCHANGED quit

\* The user presses the quit key; the key press stays pending.
PressQuit ==
    /\ ~quit
    /\ main.pc # "exit"
    /\ quit' = TRUE
    /\ UNCHANGED <<session_vars, main>>

MainStep ==
    \/ MainConstruct
    \/ MainStartDevice
    \/ MainNamedWindow
    \/ MainCaptureLoop
    \/ MainImshow
    \/ MainNormalize
    \/ MainWaitKey
    \/ MainClose

NextMain == MainStep \/ PressQuit

SpecMain == InitMain /\ [][NextMain]_vars

\* The interpreter keeps running the program until it exits.
SpecMainFair == SpecMain /\ WF_vars(MainStep)

----------------------------------------------------------------------------
(* Properties *)

SupportedResolutions == {"720P", "1080P", "1440P", "1536P", "2160P", "3072P"}
SupportedDepthModes == {"NFOV_2X2BINNED", "NFOV_UNBINNED", "WFOV_2X2BINNED",
                        "WFOV_UNBINNED", "PASSIVE_IR"}

Printed(message) == \E k \in 1..Len(last.out) : last.out[k] = message

ResolutionSetFrom(label) ==
    /\ last.ret.kind = "return"
    /\ IF label \in SupportedResolutions
       THEN /\ resolution[last.self] = "K4A_COLOR_RESOLUTION_" \o label
            /\ ~Printed(InvalidResolutionMessage)
       ELSE /\ resolution[last.self] = "K4A_COLOR_RESOLUTION_1080P"
            /\ Printed(InvalidResolutionMessage)

DepthModeSetFrom(label) ==
    /\ last.ret.kind = "return"
    /\ IF label \in SupportedDepthModes
       THEN /\ depth_mode[last.self] = "K4A_DEPTH_MODE_" \o label
            /\ ~Printed(InvalidDepthModeMessage)
       ELSE /\ depth_mode[last.self] = "K4A_DEPTH_MODE_NFOV_2X2BINNED"
            /\ Printed(InvalidDepthModeMessage)

\* C1: after set_resolution(label), called by the constructor or later, the
\* session's resolution is the enum of that label when the label is one of
\* the six supported ones, and the 1080P enum otherwise; the call returns
\* (it does not raise) and prints the diagnostic exactly in the second case.
C1_ResolutionLookup ==
    /\ last.op = "set_resolution" => ResolutionSetFrom(last.arg[1])
    /\ last.op = "__init__" => ResolutionSetFrom(last.arg[1])

\* C1 witness: a later call with an unknown label, on a session constructed
\* with another resolution, has fallen back to 1080P.
C1_Witness ==
    /\ last.op = "set_resolution"
    /\ last.arg[1] = "1080p"
    /\ resolution[1] = "K4A_COLOR_RESOLUTION_1080P"
    /\ Printed(InvalidResolutionMessage)

\* C2: after set_depth_mode(label), called by the constructor or later, the
\* session's depth mode is the enum of that label when the label is one of
\* the five supported ones, and the NFOV_2X2BINNED enum otherwise; the call
\* returns (it does not raise).
C2_DepthModeLookup ==
    /\ last.op = "set_depth_mode" => DepthModeSetFrom(last.arg[1])
    /\ last.op = "__init__" => DepthModeSetFrom(last.arg[2])

\* C2 witness: the constructor, given a resolution label as its depth mode,
\* has fallen back to NFOV_2X2BINNED.
C2_Witness ==
    /\ last.op = "__init__"
    /\ last.arg[2] = "1080P"
    /\ depth_mode[1] = "K4A_DEPTH_MODE_NFOV_2X2BINNED"
    /\ Printed(InvalidDepthModeMessage)

\* C3: a capture_loop call on a session that is not Started (never started,
\* or closed and not started again) fails with an error and returns no frame
\* pair.
C3_CaptureOnlyWhenStarted ==
    (last.op = "capture_loop" /\ ~Started(last.self)) => last.ret.kind = "raise"

\* C4: param on a session whose start_device never succeeded (it has no device)
\* fails with an error and returns nothing; on a Started session it returns the
\* pair (intrinsic matrix, distortion coefficients) of the session's own open
\* device; and a param call changes nothing of the session or the device.
C4_Param ==
    /\ [](last.op = "param" =>
            /\ device[last.self] = NoDevice => last.ret.kind = "raise"
            /\ Started(last.self) =>
                 /\ last.ret.kind = "return"
                 /\ Len(last.ret.value) = 2
                 /\ last.ret.value[1][1] = "matrix"
                 /\ last.ret.value[1][3] = devices[device[last.self]].index
                 /\ last.ret.value[2] =
                       <<"distortion", devices[device[last.self]].index>>)
    /\ [][last'.op = "param" =>
            UNCHANGED <<sessions, device_index, resolution, depth_mode,
                        device_config, device, default_configuration, devices>>]_vars

\* C4 witness: param has raised on a session whose only start_device failed.
C4_Witness ==
    /\ last.op = "param"
    /\ last.ret.kind = "raise"
    /\ device[1] = NoDevice
    /\ device_config[1] = DefaultConfigurationRef

\* C5: a capture_loop call on a Started session returns without raising, with
\* the colour flag and the depth flag each as the device reported it for that
\* update (an image exactly when its flag is set), after exactly one update,
\* and the session is still Started.
C5_CaptureSurfacesFailure ==
    (last.op = "capture_loop" /\ Started(last.self)) =>
        LET cap == devices[device[last.self]].capture
            v == last.ret.value
        IN /\ last.ret.kind = "return"
           /\ cap.valid
           /\ Len(v) = 4
           /\ v[1] = cap.color_ok
           /\ v[3] = cap.depth_ok
           /\ (v[2] = None) = ~cap.color_ok
           /\ (v[4] = None) = ~cap.depth_ok
           /\ last.updates = 1
           /\ Started(last.self)

\* C5 witness: the update failed for the colour image alone.
C5_Witness ==
    /\ last.op = "capture_loop"
    /\ Started(1)
    /\ last.ret.kind = "return"
    /\ last.ret.value[1] = FALSE
    /\ last.ret.value[3] = TRUE

\* C6: with two sessions of different device_index, a call that succeeds on
\* one session never changes the configuration record, the settings or the
\* handle of the other, Started, session; and a start_device that succeeds
\* opens the device at the session's own index with the session's own
\* resolution and depth mode.
C6_Isolation ==
    /\ [][\A j \in sessions :
            (/\ Started(j)
             /\ last'.self # j
             /\ last'.ret.kind = "return"
             /\ device_index'[last'.self] # device_index[j]) =>
               /\ ConfigurationRecord(j)' = ConfigurationRecord(j)
               /\ resolution'[j] = resolution[j]
               /\ depth_mode'[j] = depth_mode[j]
               /\ device'[j] = device[j]]_vars
    /\ [][\A i \in SessionIds :
            (last'.op = "start_device" /\ last'.self = i
               /\ last'.ret.kind = "return") =>
               /\ devices'[device'[i]].index = device_index[i]
               /\ devices'[device'[i]].config =
                     [color_resolution |-> resolution[i],
                      depth_mode |-> depth_mode[i]]]_vars

\* C7: a set_resolution or set_depth_mode call on a Started session leaves the
\* configuration record of the session, its handle and the device (with the
\* configuration it was opened with) unchanged; a start_device that succeeds
\* opens the device with the selection the session holds at that moment.
C7_ConfigurationFrozenWhileStarted ==
    /\ [][\A i \in SessionIds :
            (last'.op \in {"set_resolution", "set_depth_mode"} /\ last'.self = i
               /\ Started(i)) =>
               /\ ConfigurationRecord(i)' = ConfigurationRecord(i)
               /\ device' = device
               /\ devices' = devices]_vars
    /\ [][\A i \in SessionIds :
            (last'.op = "start_device" /\ last'.self = i
               /\ last'.ret.kind = "return") =>
               LET chosen == [color_resolution |-> resolution[i],
                              depth_mode |-> depth_mode[i]]
               IN /\ devices'[device'[i]].config = chosen
                  /\ devices'[device'[i]].state = "open"
                  /\ ConfigurationRecord(i)' = chosen]_vars

\* C7 witness: a Started session whose resolution was changed after the start:
\* the device still runs the resolution it was opened with.
C7_Witness ==
    /\ last.op = "set_resolution"
    /\ Started(1)
    /\ resolution[1] # devices[device[1]].config.color_resolution
    /\ ConfigurationRecord(1) = devices[device[1]].config

\* C8: when the __main__ program has ended after a start_device that
\* succeeded, the device has been closed.
C8_ClosedOnEveryExit ==
    (main.pc = "exit" /\ device[1] # NoDevice) => ~IsOpen(device[1])

InLoop == main.pc \in {"capture_loop", "imshow", "normalize", "waitKey"}

Closed == main.pc = "exit" /\ last.op = "close_device" /\ ~IsOpen(device[1])

C10_NoOrphanHandle ==
    /\ \A h \in HandleIds :
          devices[h].state = "open" => \E i \in sessions : device[i] = h
    /\ Cardinality({h \in HandleIds : devices[h].state = "open"}) <= 1

\* C10 witness: a second start_device on a Started session, with no
\* close_device in between, has been refused.
C10_Witness ==
    /\ last.op = "start_device"
    /\ last.ret.kind = "raise"
    /\ Started(1)

====
